---- MODULE Spec2Model ----
(***************************************************************************)
(* FilderFlux: one-way folder synchronisation (commands/sync/sync.py).     *)
(*                                                                         *)
(* The filesystem is one function fs from absolute paths (sequences of     *)
(* names) to entries; the source root and the replica root are two         *)
(* disjoint paths in it.  sync_folder and copy_folder are run step by step *)
(* on an explicit call stack, so that the iteration order of the Python    *)
(* sets and of iterdir() is a choice of the model, and handle_sync is the  *)
(* scheduler that drives them.                                             *)
(***************************************************************************)
EXTENDS Naturals, Integers, Sequences, FiniteSets, TLC

VARIABLES
    fs,             \* the filesystem: absolute path -> entry
    stack,          \* call stack of sync_folder / copy_folder frames
    pc,             \* position of handle_sync
    shutdown_flag,  \* the module-level flag set by shutdown_handler
    counter,        \* handle_sync's round counter
    log,            \* kinds of log events emitted by the current top-level sync_folder call
    call,           \* history of the current top-level sync_folder call
    hist,           \* history of the run with respect to the shutdown signal
    wait,           \* what is left of the interval time.sleep is waiting out
    unit            \* a function called on its own: arguments and return value

vars == <<fs, stack, pc, shutdown_flag, counter, log, call, hist, wait, unit>>

(***************************************************************************)
(* Bounds of the model.                                                    *)
(***************************************************************************)
MaxDepth == 2
MaxEntries == 2
MaxRounds == 2
MaxInterval == 2

Names == {"a", "b"}
RunNames == {"a"}

\* File contents are byte sequences: an empty file and two one-byte files.
FileContents == {<<>>, <<1>>, <<2>>}

source_folder_path == <<"s">>
replica_folder_path == <<"r">>

(***************************************************************************)
(* Filesystem entries and the pathlib / shutil primitives the code uses.   *)
(***************************************************************************)
Dir == [kind |-> "dir", data |-> <<>>]
File(c) == [kind |-> "file", data |-> c]

IsPrefix(p, q) == Len(p) <= Len(q) /\ SubSeq(q, 1, Len(p)) = p
Parent(p) == SubSeq(p, 1, Len(p) - 1)

\* The directory that holds both roots always exists.
exists(f, p) == p = <<>> \/ p \in DOMAIN f
is_dir(f, p) == p = <<>> \/ (p \in DOMAIN f /\ f[p].kind = "dir")
is_file(f, p) == p \in DOMAIN f /\ f[p].kind = "file"

relative_to(p, base) == SubSeq(p, Len(base) + 1, Len(p))

iterdir(f, p) == {q \in DOMAIN f : Len(q) = Len(p) + 1 /\ IsPrefix(p, q)}
rglob(f, p) == {q \in DOMAIN f : Len(q) > Len(p) /\ IsPrefix(p, q)}

Restrict(f, S) == [q \in S |-> f[q]]
Put(f, p, e) == [q \in DOMAIN f \cup {p} |-> IF q = p THEN e ELSE f[q]]

rmtree(f, p) == Restrict(f, {q \in DOMAIN f : ~IsPrefix(p, q)})
unlink(f, p) == Restrict(f, DOMAIN f \ {p})

Prefixes(p) == {SubSeq(p, 1, n) : n \in 1..Len(p)}

\* Path.mkdir(parents=True, exist_ok=True): raises when p or one of its
\* ancestors exists and is not a directory.
mkdir_fails(f, p) == \E q \in Prefixes(p) : is_file(f, q)
mkdir(f, p) == [q \in DOMAIN f \cup Prefixes(p) |-> IF q \in DOMAIN f THEN f[q] ELSE Dir]

\* open(p, "wb"): needs an existing parent directory and p not a directory.
open_wb_fails(f, p) == ~is_dir(f, Parent(p)) \/ is_dir(f, p)

(***************************************************************************)
(* get_all_folders / get_all_files / build_path.                           *)
(***************************************************************************)
\* Variant that lists the folder itself only (iterdir instead of rglob).
get_all_folders_OneLevel(f, folder_path) ==
    {path \in iterdir(f, folder_path) : is_dir(f, path)}

get_all_folders(f, folder_path) == {path \in rglob(f, folder_path) : is_dir(f, path)}
get_all_files(f, folder_path) == {path \in rglob(f, folder_path) : is_file(f, path)}

build_path(folder_path, name) == folder_path \o name

(***************************************************************************)
(* compare_files.  The outcome is "equal", "differ" or "raise"; st_size of *)
(* a directory is decided by the filesystem, so it is a choice.            *)
(***************************************************************************)
chunk_size == 8192

Min(x, y) == IF x <= y THEN x ELSE y
read(data, pos) == SubSeq(data, pos + 1, Min(Len(data), pos + chunk_size))

RECURSIVE compare_chunks(_, _, _)
compare_chunks(d1, d2, pos) ==
    LET chunk1 == read(d1, pos)
        chunk2 == read(d2, pos)
    IN  IF chunk1 # chunk2 THEN FALSE
        ELSE IF chunk1 = <<>> THEN TRUE
        ELSE compare_chunks(d1, d2, pos + chunk_size)

DirStSizes == {Len(c) : c \in FileContents} \cup {4096}
st_sizes(f, p) == IF is_file(f, p) THEN {Len(f[p].data)} ELSE DirStSizes

\* Variant that trusts the sizes and skips the byte comparison.
compare_files_SizeOnly(f, file_path_1, file_path_2) ==
    IF ~exists(f, file_path_1) \/ ~exists(f, file_path_2) THEN {"differ"}
    ELSE {IF s1 # s2 THEN "differ"
          ELSE IF ~is_file(f, file_path_1) \/ ~is_file(f, file_path_2) THEN "raise"
          ELSE "equal" :
          s1 \in st_sizes(f, file_path_1), s2 \in st_sizes(f, file_path_2)}

\* Variant that also compares what stat() reports of the two files.
compare_files_WithStat(f, file_path_1, file_path_2) ==
    IF ~exists(f, file_path_1) \/ ~exists(f, file_path_2) THEN {"differ"}
    ELSE {IF s1 # s2 THEN "differ"
          ELSE IF ~is_file(f, file_path_1) \/ ~is_file(f, file_path_2) THEN "raise"
          ELSE IF f[file_path_1] = f[file_path_2] THEN "equal"
          ELSE "differ" :
          s1 \in st_sizes(f, file_path_1), s2 \in st_sizes(f, file_path_2)}

compare_files(f, file_path_1, file_path_2) ==
    IF ~exists(f, file_path_1) \/ ~exists(f, file_path_2) THEN {"differ"}
    ELSE {IF s1 # s2 THEN "differ"
          ELSE IF ~is_file(f, file_path_1) \/ ~is_file(f, file_path_2) THEN "raise"
          ELSE IF compare_chunks(f[file_path_1].data, f[file_path_2].data, 0) THEN "equal"
          ELSE "differ" :
          s1 \in st_sizes(f, file_path_1), s2 \in st_sizes(f, file_path_2)}

(***************************************************************************)
(* copy_file: the result is the new filesystem and the log event.          *)
(***************************************************************************)
RECURSIVE copy_chunks(_, _)
copy_chunks(data, pos) ==
    LET chunk == read(data, pos)
    IN  IF chunk = <<>> THEN <<>> ELSE chunk \o copy_chunks(data, pos + chunk_size)

\* Variant that opens the replica file for appending.
copy_file_Append(f, source_file_path, replica_file_path) ==
    IF ~is_file(f, source_file_path) \/ open_wb_fails(f, replica_file_path)
    THEN [fs |-> f, ev |-> "error"]
    ELSE LET old == IF is_file(f, replica_file_path) THEN f[replica_file_path].data ELSE <<>>
         IN  [fs |-> Put(f, replica_file_path,
                         File(old \o copy_chunks(f[source_file_path].data, 0))),
              ev |-> "copied_file"]

\* Variant that opens the replica file before the source file.
copy_file_ReplicaFirst(f, source_file_path, replica_file_path) ==
    IF open_wb_fails(f, replica_file_path) THEN [fs |-> f, ev |-> "error"]
    ELSE IF ~is_file(f, source_file_path)
    THEN [fs |-> Put(f, replica_file_path, File(<<>>)), ev |-> "error"]
    ELSE [fs |-> Put(f, replica_file_path, File(copy_chunks(f[source_file_path].data, 0))),
          ev |-> "copied_file"]

copy_file(f, source_file_path, replica_file_path) ==
    IF ~is_file(f, source_file_path) \/ open_wb_fails(f, replica_file_path)
    THEN [fs |-> f, ev |-> "error"]
    ELSE LET data == IF replica_file_path = source_file_path THEN <<>>  \* truncated by "wb"
                     ELSE f[source_file_path].data
         IN  [fs |-> Put(f, replica_file_path, File(copy_chunks(data, 0))),
              ev |-> "copied_file"]

\* shutil.copy2(src, dst): into dst when dst is a directory.
copy2_target(f, src, dst) == IF is_dir(f, dst) THEN dst \o <<src[Len(src)]>> ELSE dst
copy2_fails(f, src, dst) == ~is_file(f, src) \/ open_wb_fails(f, copy2_target(f, src, dst))
copy2(f, src, dst) == Put(f, copy2_target(f, src, dst), File(f[src].data))

(***************************************************************************)
(* Call stack.  A frame is one activation of sync_folder or copy_folder.   *)
(* files and folders are the elements its loops have still to visit.       *)
(***************************************************************************)
Frame(fn, src, rep, root) ==
    [fn |-> fn, src |-> src, rep |-> rep, root |-> root,
     phase |-> "check", files |-> {}, folders |-> {}, cur |-> <<>>]

Top == stack[Len(stack)]
Pop == SubSeq(stack, 1, Len(stack) - 1)
SetTop(fr) == [stack EXCEPT ![Len(stack)] = fr]
Running(fn, phase) == stack # <<>> /\ Top.fn = fn /\ Top.phase = phase

\* The branch of the top-level call is recorded when its own frame decides.
NoteBranch(b) == IF Len(stack) = 1 THEN [call EXCEPT !.branch = b] ELSE call

(***************************************************************************)
(* sync_folder, lines 251-266: the three early returns, else enumeration.  *)
(***************************************************************************)
\* Variant that tests the replica before the source.
SyncCheck_ReplicaFirst ==
    /\ Running("sync", "check")
    /\ LET fr == Top IN
       IF ~exists(fs, fr.rep) THEN
           /\ log' = log
           /\ stack' = Append(SetTop([fr EXCEPT !.phase = "loop"]),
                              Frame("copy", fr.src, fr.rep, fr.src))
           /\ call' = NoteBranch("fresh")
       ELSE IF is_file(fs, fr.rep) THEN
           /\ log' = log \cup {"error"}
           /\ stack' = Pop
           /\ call' = NoteBranch("conflict")
       ELSE IF ~is_dir(fs, fr.src) THEN
           /\ log' = log \cup {"error"}
           /\ stack' = Pop
           /\ call' = NoteBranch("no_source")
       ELSE
           /\ log' = log
           /\ stack' = SetTop([fr EXCEPT !.phase = "rm_folders",
                                         !.folders = get_all_folders(fs, fr.src),
                                         !.files = get_all_files(fs, fr.src)])
           /\ call' = NoteBranch("normal")
    /\ UNCHANGED <<fs, pc, shutdown_flag, counter, hist, wait, unit>>

SyncCheck ==
    /\ Running("sync", "check")
    /\ LET fr == Top IN
       IF ~is_dir(fs, fr.src) THEN
           /\ log' = log \cup {"error"}
           /\ stack' = Pop
           /\ call' = NoteBranch("no_source")
       ELSE IF ~exists(fs, fr.rep) THEN
           /\ log' = log
           /\ stack' = Append(SetTop([fr EXCEPT !.phase = "loop"]),
                              Frame("copy", fr.src, fr.rep, fr.src))
           /\ call' = NoteBranch("fresh")
       ELSE IF is_file(fs, fr.rep) THEN
           /\ log' = log \cup {"error"}
           /\ stack' = Pop
           /\ call' = NoteBranch("conflict")
       ELSE
           /\ log' = log
           /\ stack' = SetTop([fr EXCEPT !.phase = "rm_folders",
                                         !.folders = get_all_folders(fs, fr.src),
                                         !.files = get_all_files(fs, fr.src)])
           /\ call' = NoteBranch("normal")
    /\ UNCHANGED <<fs, pc, shutdown_flag, counter, hist, wait, unit>>

(***************************************************************************)
(* remove_redundant_folders / remove_redundant_files on the replica        *)
(* folder, with the preservation sets of lines 268-271.                    *)
(***************************************************************************)
full_paths_to_preserve(fr, paths) ==
    {build_path(fr.rep, relative_to(path, fr.src)) : path \in paths}

redundant_folders(f, folder_path, folders_to_preserve) ==
    {path \in iterdir(f, folder_path) : is_dir(f, path) /\ path \notin folders_to_preserve}

redundant_files(f, folder_path, files_to_preserve) ==
    {path \in iterdir(f, folder_path) : is_file(f, path) /\ path \notin files_to_preserve}

\* Variant that removes a redundant folder only when it is empty (rmdir).
remove_redundant_folders_EmptyOnly(f, folder_path, folders_to_preserve) ==
    Restrict(f, DOMAIN f \ {path \in redundant_folders(f, folder_path, folders_to_preserve) :
                               iterdir(f, path) = {}})

remove_redundant_folders(f, folder_path, folders_to_preserve) ==
    Restrict(f, {q \in DOMAIN f :
                    \A path \in redundant_folders(f, folder_path, folders_to_preserve) :
                        ~IsPrefix(path, q)})

\* Variant that looks for redundant files at every depth (rglob).
remove_redundant_files_Deep(f, folder_path, files_to_preserve) ==
    Restrict(f, DOMAIN f \ {path \in rglob(f, folder_path) :
                               is_file(f, path) /\ path \notin files_to_preserve})

remove_redundant_files(f, folder_path, files_to_preserve) ==
    Restrict(f, DOMAIN f \ redundant_files(f, folder_path, files_to_preserve))

RemoveRedundantFolders ==
    /\ Running("sync", "rm_folders")
    /\ LET fr == Top
           keep == full_paths_to_preserve(fr, fr.folders)
       IN  /\ fs' = remove_redundant_folders(fs, fr.rep, keep)
           /\ log' = IF redundant_folders(fs, fr.rep, keep) = {} THEN log
                     ELSE log \cup {"removed_folder"}
           /\ stack' = SetTop([fr EXCEPT !.phase = "rm_files"])
    /\ UNCHANGED <<pc, shutdown_flag, counter, call, hist, wait, unit>>

RemoveRedundantFiles ==
    /\ Running("sync", "rm_files")
    /\ LET fr == Top
           keep == full_paths_to_preserve(fr, fr.files)
       IN  /\ fs' = remove_redundant_files(fs, fr.rep, keep)
           /\ log' = IF redundant_files(fs, fr.rep, keep) = {} THEN log
                     ELSE log \cup {"removed_file"}
           /\ stack' = SetTop([fr EXCEPT !.phase = "loop"])
    /\ UNCHANGED <<pc, shutdown_flag, counter, call, hist, wait, unit>>

(***************************************************************************)
(* sync_folder, lines 277-281: one iteration of the loop over files.  An   *)
(* exception of compare_files is caught nowhere: it unwinds every frame    *)
(* and leaves handle_sync.                                                 *)
(***************************************************************************)
SyncFile ==
    /\ Running("sync", "loop")
    /\ Top.files # {}
    /\ \E file \in Top.files :
         LET fr == Top
             replica_file == build_path(fr.rep, relative_to(file, fr.src))
         IN  \E equal \in compare_files(fs, file, replica_file) :
               IF equal = "raise" THEN
                   /\ pc' = "raised"
                   /\ stack' = <<>>
                   /\ UNCHANGED <<fs, log>>
               ELSE
                   /\ pc' = pc
                   /\ stack' = SetTop([fr EXCEPT !.files = @ \ {file}])
                   /\ IF equal = "equal" THEN UNCHANGED <<fs, log>>
                      ELSE LET r == copy_file(fs, file, replica_file)
                           IN  fs' = r.fs /\ log' = log \cup {r.ev}
    /\ UNCHANGED <<shutdown_flag, counter, call, hist, wait, unit>>

(***************************************************************************)
(* sync_folder, lines 283-285: one iteration of the loop over folders, and *)
(* the return.                                                             *)
(***************************************************************************)
SyncRecurse ==
    /\ Running("sync", "loop")
    /\ Top.files = {}
    /\ \E folder \in Top.folders :
         LET fr == Top
             replica_folder == build_path(fr.rep, relative_to(folder, fr.src))
         IN  stack' = Append(SetTop([fr EXCEPT !.folders = @ \ {folder}]),
                             Frame("sync", folder, replica_folder, folder))
    /\ UNCHANGED <<fs, pc, shutdown_flag, counter, log, call, hist, wait, unit>>

SyncReturn ==
    /\ Running("sync", "loop")
    /\ Top.files = {} /\ Top.folders = {}
    /\ stack' = Pop
    /\ UNCHANGED <<fs, pc, shutdown_flag, counter, log, call, hist, wait, unit>>

(***************************************************************************)
(* copy_folder.  Its try block covers the whole body: a failure is logged  *)
(* and ends this activation only.                                          *)
(***************************************************************************)
CopyEnter ==
    /\ Running("copy", "check")
    /\ LET fr == Top IN
       IF mkdir_fails(fs, fr.rep) \/ ~is_dir(fs, fr.src) THEN
           /\ fs' = IF mkdir_fails(fs, fr.rep) THEN fs ELSE mkdir(fs, fr.rep)
           /\ log' = log \cup {"error"}
           /\ stack' = Pop
       ELSE
           /\ fs' = mkdir(fs, fr.rep)
           /\ log' = log
           /\ stack' = SetTop([fr EXCEPT !.phase = "loop", !.folders = iterdir(fs, fr.src)])
    /\ UNCHANGED <<pc, shutdown_flag, counter, call, hist, wait, unit>>

CopyItem ==
    /\ Running("copy", "loop")
    /\ \E item \in Top.folders :
         LET fr == Top
             relative_item_path == relative_to(item, fr.root)
             replica_item_path == fr.rep \o relative_item_path
             rest == [fr EXCEPT !.folders = @ \ {item}]
         IN  IF is_dir(fs, item) THEN
                 /\ stack' = Append(SetTop(rest), Frame("copy", item, replica_item_path, fr.root))
                 /\ UNCHANGED <<fs, log>>
             ELSE IF mkdir_fails(fs, Parent(replica_item_path)) THEN
                 /\ stack' = Pop
                 /\ fs' = fs
                 /\ log' = log \cup {"error"}
             ELSE LET made == mkdir(fs, Parent(replica_item_path)) IN
                  IF copy2_fails(made, item, replica_item_path) THEN
                      /\ stack' = Pop
                      /\ fs' = made
                      /\ log' = log \cup {"error"}
                  ELSE
                      /\ stack' = SetTop(rest)
                      /\ fs' = copy2(made, item, replica_item_path)
                      /\ log' = log \cup {"copied_file"}
    /\ UNCHANGED <<pc, shutdown_flag, counter, call, hist, wait, unit>>

CopyReturn ==
    /\ Running("copy", "loop")
    /\ Top.folders = {}
    /\ stack' = Pop
    /\ log' = log \cup {"copied_folder"}
    /\ UNCHANGED <<fs, pc, shutdown_flag, counter, call, hist, wait, unit>>

(***************************************************************************)
(* shutdown_handler: may run between any two steps of the main thread.     *)
(***************************************************************************)
\* Variant that flips the flag instead of setting it.
shutdown_handler_Toggle ==
    /\ shutdown_flag' = ~shutdown_flag
    /\ hist' = IF shutdown_flag THEN hist ELSE [hist EXCEPT !.signal_at = pc]
    /\ UNCHANGED <<fs, stack, pc, counter, log, call, wait, unit>>

shutdown_handler ==
    /\ shutdown_flag' = TRUE
    /\ hist' = IF shutdown_flag THEN hist ELSE [hist EXCEPT !.signal_at = pc]
    /\ UNCHANGED <<fs, stack, pc, counter, log, call, wait, unit>>

(***************************************************************************)
(* handle_sync.                                                            *)
(*   start      line 328, the test of source_folder_path.exists()          *)
(*   loop       line 333, the while condition                              *)
(*   call_round line 334, about to call sync_folder in the loop            *)
(*   in_round   sync_folder of a round is running                          *)
(*   presleep   line 337, the test before time.sleep                       *)
(*   sleeping   line 338, inside time.sleep                                *)
(*   call_final line 340, about to call sync_folder after the loop         *)
(*   in_final   the final sync_folder is running                           *)
(*   done       handle_sync has returned                                   *)
(*   raised     an exception has left handle_sync                          *)
(***************************************************************************)
\* args.interval, line 338, in units of the model's clock.
interval == MaxInterval

\* No function is being called on its own.
NoUnit == [fn |-> "none"]

StartCall ==
    [n |-> call.n + 1, branch |-> "none", fs0 |-> fs, prev |-> log, failed |-> {}, vanished |-> {}]

HandleSyncEntry ==
    /\ pc = "start"
    /\ hist' = [hist EXCEPT !.entry_source = exists(fs, source_folder_path),
                            !.entry_replica = IF is_dir(fs, replica_folder_path) THEN "dir"
                                              ELSE IF is_file(fs, replica_folder_path) THEN "file"
                                              ELSE "absent"]
    /\ IF exists(fs, source_folder_path) THEN
           /\ counter' = 0
           /\ pc' = "loop"
           /\ UNCHANGED <<fs, log>>
       ELSE
           /\ counter' = counter
           /\ IF ~exists(fs, replica_folder_path) THEN
                  /\ pc' = "done"
                  /\ log' = log \cup {"error"}
                  /\ fs' = fs
              ELSE IF is_dir(fs, replica_folder_path) THEN
                  /\ pc' = "done"
                  /\ log' = log \cup {"error", "removed_replica"}
                  /\ fs' = rmtree(fs, replica_folder_path)
              ELSE \* shutil.rmtree of a regular file raises NotADirectoryError
                  /\ pc' = "raised"
                  /\ log' = log \cup {"error"}
                  /\ fs' = fs
    /\ UNCHANGED <<stack, shutdown_flag, call, wait, unit>>

\* Variant whose loop condition never sees the flag.
LoopCheck_IgnoreFlag ==
    /\ pc = "loop"
    /\ counter < MaxRounds
    /\ pc' = "call_round"
    /\ UNCHANGED <<fs, stack, shutdown_flag, counter, log, call, hist, wait, unit>>

\* Variant that tests the flag only after the first round (do ... while).
LoopCheck_DoWhile ==
    /\ pc = "loop"
    /\ IF ~shutdown_flag \/ counter = 0 THEN
           /\ counter < MaxRounds
           /\ pc' = "call_round"
           /\ hist' = hist
       ELSE
           /\ pc' = "call_final"
           /\ hist' = [hist EXCEPT !.observed = TRUE]
    /\ UNCHANGED <<fs, stack, shutdown_flag, counter, log, call, wait, unit>>

LoopCheck ==
    /\ pc = "loop"
    /\ IF ~shutdown_flag THEN
           /\ counter < MaxRounds
           /\ pc' = "call_round"
           /\ hist' = hist
       ELSE
           /\ pc' = "call_final"
           /\ hist' = [hist EXCEPT !.observed = TRUE]
    /\ UNCHANGED <<fs, stack, shutdown_flag, counter, log, call, wait, unit>>

NoteCall ==
    [hist EXCEPT !.signalled_calls = IF shutdown_flag THEN @ + 1 ELSE @,
                 !.observed_calls = IF hist.observed THEN @ + 1 ELSE @]

\* Variant that passes the two folders in the wrong order.
StartRound_Swapped ==
    /\ pc = "call_round"
    /\ pc' = "in_round"
    /\ stack' = <<Frame("sync", replica_folder_path, source_folder_path, replica_folder_path)>>
    /\ call' = StartCall
    /\ log' = {}
    /\ hist' = NoteCall
    /\ UNCHANGED <<fs, shutdown_flag, counter, wait, unit>>

StartRound ==
    /\ pc = "call_round"
    /\ pc' = "in_round"
    /\ stack' = <<Frame("sync", source_folder_path, replica_folder_path, source_folder_path)>>
    /\ call' = StartCall
    /\ log' = {}
    /\ hist' = NoteCall
    /\ UNCHANGED <<fs, shutdown_flag, counter, wait, unit>>

RoundDone ==
    /\ pc = "in_round"
    /\ stack = <<>>
    /\ counter' = counter + 1
    /\ pc' = "presleep"
    /\ UNCHANGED <<fs, stack, shutdown_flag, log, call, hist, wait, unit>>

\* Variant that sleeps whatever the flag says.
PreSleepCheck_AlwaysSleep ==
    /\ pc = "presleep"
    /\ pc' = "sleeping"
    /\ wait' = interval
    /\ hist' = [hist EXCEPT !.observed = shutdown_flag \/ @,
                            !.observed_sleeps = IF shutdown_flag \/ hist.observed THEN @ + 1 ELSE @]
    /\ UNCHANGED <<fs, stack, shutdown_flag, counter, log, call, unit>>

PreSleepCheck ==
    /\ pc = "presleep"
    /\ IF ~shutdown_flag THEN
           /\ pc' = "sleeping"
           /\ wait' = interval
           /\ hist' = [hist EXCEPT !.observed_sleeps = IF hist.observed THEN @ + 1 ELSE @]
       ELSE
           /\ pc' = "loop"
           /\ wait' = wait
           /\ hist' = [hist EXCEPT !.observed = TRUE]
    /\ UNCHANGED <<fs, stack, shutdown_flag, counter, log, call, unit>>

\* time.sleep(interval), line 338, while the interval has not elapsed.  A
\* signal whose handler returns normally does not end the call: the
\* interpreter resumes the wait for what is left of the interval.
SleepTick ==
    /\ pc = "sleeping"
    /\ wait > 0
    /\ wait' = wait - 1
    /\ UNCHANGED <<fs, stack, pc, shutdown_flag, counter, log, call, hist, unit>>

\* Variant whose wait does not end once the flag is set.
Sleep_Blocked ==
    /\ pc = "sleeping"
    /\ wait = 0
    /\ ~shutdown_flag
    /\ pc' = "loop"
    /\ UNCHANGED <<fs, stack, shutdown_flag, counter, log, call, hist, wait, unit>>

\* time.sleep(interval) returns when the interval has elapsed.
Sleep ==
    /\ pc = "sleeping"
    /\ wait = 0
    /\ pc' = "loop"
    /\ hist' = [hist EXCEPT !.signalled_waits = IF shutdown_flag THEN @ + 1 ELSE @]
    /\ UNCHANGED <<fs, stack, shutdown_flag, counter, log, call, wait, unit>>

StartFinal ==
    /\ pc = "call_final"
    /\ pc' = "in_final"
    /\ stack' = <<Frame("sync", source_folder_path, replica_folder_path, source_folder_path)>>
    /\ call' = StartCall
    /\ log' = {}
    /\ hist' = NoteCall
    /\ UNCHANGED <<fs, shutdown_flag, counter, wait, unit>>

\* Variant that counts the final call as a round.
FinalDone_Counts ==
    /\ pc = "in_final"
    /\ stack = <<>>
    /\ pc' = "done"
    /\ counter' = counter + 1
    /\ UNCHANGED <<fs, stack, shutdown_flag, log, call, hist, wait, unit>>

FinalDone ==
    /\ pc = "in_final"
    /\ stack = <<>>
    /\ pc' = "done"
    /\ UNCHANGED <<fs, stack, shutdown_flag, counter, log, call, hist, wait, unit>>

(***************************************************************************)
(* Initial states: every pair of a source and a replica, each of which is  *)
(* absent, a regular file, or a directory tree of at most MaxEntries       *)
(* entries and at most MaxDepth levels.                                    *)
(***************************************************************************)
RelPaths(names) == UNION {[1..n -> names] : n \in 1..MaxDepth}

RECURSIVE Shapes(_, _)
Shapes(n, names) ==
    IF n = 0 THEN {{}}
    ELSE LET S == Shapes(n - 1, names)
         IN  S \cup UNION {{P \cup {p} : p \in {q \in RelPaths(names) :
                                                  Len(q) = 1 \/ Parent(q) \in P}} :
                            P \in S}

Entries == {Dir} \cup {File(c) : c \in FileContents}

TreesOver(n, names) ==
    UNION {{t \in [P -> Entries] :
               \A p \in P : (\E q \in P : Len(q) > 1 /\ Parent(q) = p) => t[p] = Dir} :
           P \in Shapes(n, names)}

Trees(names) == TreesOver(MaxEntries, names)

Mount(root, t) ==
    [q \in {root} \cup {root \o p : p \in DOMAIN t} |->
        IF q = root THEN Dir ELSE t[relative_to(q, root)]]

Nothing == [q \in {} |-> Dir]

Roots(root, names) ==
    {Nothing, [q \in {root} |-> File(<<1>>)]} \cup {Mount(root, t) : t \in Trees(names)}

InitOver(names) ==
    /\ fs \in {s @@ r : s \in Roots(source_folder_path, names),
                        r \in Roots(replica_folder_path, names)}
    /\ stack = <<>>
    /\ pc = "start"
    /\ shutdown_flag = FALSE
    /\ counter = 0
    /\ wait = 0
    /\ unit = NoUnit
    /\ log = {}
    /\ call = [n |-> 0, branch |-> "none", fs0 |-> fs, prev |-> {}, failed |-> {}, vanished |-> {}]
    /\ hist = [signalled_calls |-> 0, signalled_waits |-> 0, observed |-> FALSE,
               observed_calls |-> 0, observed_sleeps |-> 0,
               entry_source |-> FALSE, entry_replica |-> "absent", signal_at |-> "never"]

\* handle_sync under signals, on trees over one name.
Init == InitOver(RunNames)

\* handle_sync with no signal delivered, on trees over all names.
InitQuiet == InitOver(Names)

SyncFolderStep ==
    \/ SyncCheck
    \/ RemoveRedundantFolders
    \/ RemoveRedundantFiles
    \/ SyncFile
    \/ SyncRecurse
    \/ SyncReturn
    \/ CopyEnter
    \/ CopyItem
    \/ CopyReturn

LoopStep ==
    \/ HandleSyncEntry
    \/ LoopCheck
    \/ StartRound
    \/ RoundDone
    \/ PreSleepCheck
    \/ SleepTick
    \/ Sleep

FinalStep ==
    \/ StartFinal
    \/ FinalDone

Next ==
    \/ SyncFolderStep
    \/ LoopStep
    \/ FinalStep
    \/ shutdown_handler

Spec == Init /\ [][Next]_vars

\* The run with no signal delivered: the loop goes on round after round
\* and the final call is never reached.
NextQuiet ==
    \/ SyncFolderStep
    \/ LoopStep

SpecQuiet == InitQuiet /\ [][NextQuiet]_vars

\* The main thread keeps running: every step of handle_sync and of the
\* calls it makes is eventually taken.  Signals come when they come.
SpecLive == Spec /\ WF_vars(SyncFolderStep \/ LoopStep \/ FinalStep)

\* The loop of handle_sync has no last round.  counter is only ever logged
\* (lines 335-336), so once it has reached MaxRounds the count of rounds is
\* dropped and the loop goes on as it does in the program.
ForgetRounds ==
    /\ pc = "loop"
    /\ counter = MaxRounds
    /\ counter' = 0
    /\ call' = [call EXCEPT !.n = 0]
    /\ UNCHANGED <<fs, stack, pc, shutdown_flag, log, hist, wait, unit>>

NextForever ==
    \/ Next
    \/ ForgetRounds

SpecForever ==
    /\ Init
    /\ [][NextForever]_vars
    /\ WF_vars(SyncFolderStep \/ LoopStep \/ FinalStep \/ ForgetRounds)

(***************************************************************************)
(* Deletions that fail.  shutil.rmtree and Path.unlink may raise (a        *)
(* permission, an entry in use); the except clauses of lines 93 and 115    *)
(* log the error and the loop over iterdir() goes on.  A failed rmtree     *)
(* leaves the folder itself and may have removed any of what it held.      *)
(***************************************************************************)
rmtree_fails(f, path) ==
    {Restrict(f, DOMAIN f \ G) :
        G \in {H \in SUBSET rglob(f, path) :
                  \A q \in H : \A q2 \in rglob(f, path) : IsPrefix(q, q2) => q2 \in H}}

RemoveRedundantFoldersFails ==
    /\ Running("sync", "rm_folders")
    /\ LET fr == Top
           keep == full_paths_to_preserve(fr, fr.folders)
       IN  \E path \in redundant_folders(fs, fr.rep, keep) :
             \E left \in rmtree_fails(fs, path) :
               /\ fs' = remove_redundant_folders(left, fr.rep, keep \cup {path})
               /\ log' = log \cup {"removed_folder", "error"}
               /\ call' = [call EXCEPT !.failed = @ \cup {path}]
               /\ stack' = SetTop([fr EXCEPT !.phase = "rm_files"])
    /\ UNCHANGED <<pc, shutdown_flag, counter, hist, wait, unit>>

RemoveRedundantFilesFails ==
    /\ Running("sync", "rm_files")
    /\ LET fr == Top
           keep == full_paths_to_preserve(fr, fr.files)
       IN  \E path \in redundant_files(fs, fr.rep, keep) :
               /\ fs' = remove_redundant_files(fs, fr.rep, keep \cup {path})
               /\ log' = log \cup {"removed_file", "error"}
               /\ call' = [call EXCEPT !.failed = @ \cup {path}]
               /\ stack' = SetTop([fr EXCEPT !.phase = "loop"])
    /\ UNCHANGED <<pc, shutdown_flag, counter, hist, wait, unit>>

NextFails ==
    \/ NextQuiet
    \/ RemoveRedundantFoldersFails
    \/ RemoveRedundantFilesFails

SpecFails == InitQuiet /\ [][NextFails]_vars

(***************************************************************************)
(* Somebody else removes a source folder while sync_folder runs.  With a   *)
(* second actor compare_files is no longer one step: the test of line 147  *)
(* and the stat() and open() calls of lines 151-156 are apart.             *)
(***************************************************************************)
\* sync_folder line 278 and compare_files line 147.
SyncFileExists ==
    /\ Running("sync", "loop")
    /\ \E file \in Top.files :
         LET fr == Top
             replica_file == build_path(fr.rep, relative_to(file, fr.src))
         IN  IF exists(fs, file) /\ exists(fs, replica_file) THEN
                 /\ stack' = SetTop([fr EXCEPT !.phase = "compare", !.cur = file])
                 /\ UNCHANGED <<fs, log>>
             ELSE LET r == copy_file(fs, file, replica_file)
                  IN  /\ stack' = SetTop([fr EXCEPT !.files = @ \ {file}])
                      /\ fs' = r.fs
                      /\ log' = log \cup {r.ev}
    /\ UNCHANGED <<pc, shutdown_flag, counter, call, hist, wait, unit>>

\* compare_files lines 151-165, then sync_folder lines 279-281.  stat() of
\* a path that is no longer there raises FileNotFoundError.
SyncFileCompare ==
    /\ Running("sync", "compare")
    /\ LET fr == Top
           file == fr.cur
           replica_file == build_path(fr.rep, relative_to(file, fr.src))
           outcomes == IF exists(fs, file) /\ exists(fs, replica_file)
                       THEN compare_files(fs, file, replica_file) ELSE {"raise"}
       IN  \E equal \in outcomes :
             IF equal = "raise" THEN
                 /\ pc' = "raised"
                 /\ stack' = <<>>
                 /\ UNCHANGED <<fs, log>>
             ELSE
                 /\ pc' = pc
                 /\ stack' = SetTop([fr EXCEPT !.phase = "loop", !.files = @ \ {file},
                                               !.cur = <<>>])
                 /\ IF equal = "equal" THEN UNCHANGED <<fs, log>>
                    ELSE LET r == copy_file(fs, file, replica_file)
                         IN  fs' = r.fs /\ log' = log \cup {r.ev}
    /\ UNCHANGED <<shutdown_flag, counter, call, hist, wait, unit>>

\* The other actor: once the top-level call has enumerated the source, it
\* removes one of the source's folders with all it holds.
ExternalRemove ==
    /\ stack # <<>>
    /\ stack[1].phase # "check"
    /\ \E folder \in get_all_folders(fs, source_folder_path) :
         /\ fs' = rmtree(fs, folder)
         /\ call' = [call EXCEPT !.vanished = @ \cup {folder}]
    /\ UNCHANGED <<stack, pc, shutdown_flag, counter, log, hist, wait, unit>>

NextRace ==
    \/ SyncCheck
    \/ RemoveRedundantFolders
    \/ RemoveRedundantFiles
    \/ SyncFileExists
    \/ SyncFileCompare
    \/ SyncRecurse
    \/ SyncReturn
    \/ CopyEnter
    \/ CopyItem
    \/ CopyReturn
    \/ LoopStep
    \/ ExternalRemove

SpecRace == InitQuiet /\ [][NextRace]_vars

(***************************************************************************)
(* sync_folder called on its own, as the tests call it, on every pair of a *)
(* source and a replica: the source may be absent.                         *)
(***************************************************************************)
InitDirect ==
    /\ fs \in {s @@ r : s \in Roots(source_folder_path, Names),
                        r \in Roots(replica_folder_path, Names)}
    /\ stack = <<Frame("sync", source_folder_path, replica_folder_path, source_folder_path)>>
    /\ pc = "direct"
    /\ shutdown_flag = FALSE
    /\ counter = 0
    /\ wait = 0
    /\ unit = NoUnit
    /\ log = {}
    /\ call = [n |-> 1, branch |-> "none", fs0 |-> fs, prev |-> {}, failed |-> {},
               vanished |-> {}]
    /\ hist = [signalled_calls |-> 0, signalled_waits |-> 0, observed |-> FALSE,
               observed_calls |-> 0, observed_sleeps |-> 0,
               entry_source |-> FALSE, entry_replica |-> "absent", signal_at |-> "never"]

SpecDirect == InitDirect /\ [][SyncFolderStep]_vars

(***************************************************************************)
(* Somebody else removes the source root while handle_sync runs, at any    *)
(* moment after line 328 has found it.                                     *)
(***************************************************************************)
ExternalRemoveRoot ==
    /\ pc \notin {"start", "done", "raised"}
    /\ exists(fs, source_folder_path)
    /\ fs' = rmtree(fs, source_folder_path)
    /\ UNCHANGED <<stack, pc, shutdown_flag, counter, log, call, hist, wait, unit>>

NextGone ==
    \/ SyncCheck
    \/ RemoveRedundantFolders
    \/ RemoveRedundantFiles
    \/ SyncFileExists
    \/ SyncFileCompare
    \/ SyncRecurse
    \/ SyncReturn
    \/ CopyEnter
    \/ CopyItem
    \/ CopyReturn
    \/ LoopStep
    \/ FinalStep
    \/ shutdown_handler
    \/ ExternalRemoveRoot

SpecGone == Init /\ [][NextGone]_vars

(***************************************************************************)
(* Functions called on their own, as the tests call them: compare_files,   *)
(* copy_file, remove_redundant_folders and remove_redundant_files on a     *)
(* filesystem and arguments drawn from bounded sets.                       *)
(***************************************************************************)
\* A regular file with what stat() reports besides its size.
Stamped(c, m) == [kind |-> "file", data |-> c, mtime |-> m]
Stamps == {1, 2}

\* Contents of more than one chunk: they differ in the first byte or in
\* the only byte of the second chunk.
Long(first, last) ==
    [i \in 1..(chunk_size + 1) |-> IF i = 1 THEN first ELSE IF i = chunk_size + 1 THEN last ELSE 0]

UnitContents ==
    FileContents \cup {<<1, 2>>, [i \in 1..chunk_size |-> 0], Long(1, 1), Long(1, 2), Long(2, 1)}

UnitEntries == {Dir} \cup {Stamped(c, m) : c \in UnitContents, m \in Stamps}

file_path_1 == source_folder_path \o <<"a">>
file_path_2 == replica_folder_path \o <<"a">>

\* Both roots are directories; each of the two paths is absent, a
\* directory or a regular file.
FilePairs ==
    {Mount(source_folder_path, t1) @@ Mount(replica_folder_path, t2) :
        t1 \in {Nothing} \cup [{<<"a">>} -> UnitEntries],
        t2 \in {Nothing} \cup [{<<"a">>} -> UnitEntries]}

\* A replica directory of one more entry than the trees of a run.
PrunedFolders == {Mount(replica_folder_path, t) : t \in TreesOver(MaxEntries + 1, Names)}

UnitCall(fn, a, b, keep) ==
    [fn |-> fn, a |-> a, b |-> b, keep |-> keep, ret |-> "none", paths |-> {}, fs0 |-> fs]

InitUnit ==
    /\ fs \in FilePairs \cup PrunedFolders
    /\ unit \in
         IF fs \in FilePairs THEN
             {UnitCall("compare_files", a, b, {}) :
                 a \in {file_path_1, file_path_2}, b \in {file_path_1, file_path_2}}
             \cup {UnitCall("copy_file", file_path_1, b, {}) :
                 b \in {file_path_1, file_path_2, file_path_2 \o <<"a">>,
                        replica_folder_path \o <<"b", "a">>}}
         ELSE
             {UnitCall(fn, replica_folder_path, <<>>, keep) :
                 fn \in {"remove_redundant_folders", "remove_redundant_files"},
                 keep \in SUBSET rglob(fs, replica_folder_path)}
             \cup {UnitCall(fn, folder_path, <<>>, {}) :
                 fn \in {"get_all_folders", "get_all_files"},
                 folder_path \in {replica_folder_path}
                     \cup get_all_folders_OneLevel(fs, replica_folder_path)}
    /\ stack = <<>>
    /\ pc = "unit"
    /\ shutdown_flag = FALSE
    /\ counter = 0
    /\ wait = 0
    /\ log = {}
    /\ call = [n |-> 0, branch |-> "none", fs0 |-> fs, prev |-> {}, failed |-> {}, vanished |-> {}]
    /\ hist = [signalled_calls |-> 0, signalled_waits |-> 0, observed |-> FALSE,
               observed_calls |-> 0, observed_sleeps |-> 0,
               entry_source |-> FALSE, entry_replica |-> "absent", signal_at |-> "never"]

Calling(fn) == unit.fn = fn /\ unit.ret = "none"

CallCompareFiles ==
    /\ Calling("compare_files")
    /\ \E equal \in compare_files(fs, unit.a, unit.b) : unit' = [unit EXCEPT !.ret = equal]
    /\ UNCHANGED <<fs, stack, pc, shutdown_flag, counter, log, call, hist, wait>>

CallCopyFile ==
    /\ Calling("copy_file")
    /\ LET r == copy_file(fs, unit.a, unit.b)
       IN  fs' = r.fs /\ unit' = [unit EXCEPT !.ret = r.ev]
    /\ UNCHANGED <<stack, pc, shutdown_flag, counter, log, call, hist, wait>>

CallRemoveRedundantFolders ==
    /\ Calling("remove_redundant_folders")
    /\ fs' = remove_redundant_folders(fs, unit.a, unit.keep)
    /\ unit' = [unit EXCEPT !.ret = "returned"]
    /\ UNCHANGED <<stack, pc, shutdown_flag, counter, log, call, hist, wait>>

CallRemoveRedundantFiles ==
    /\ Calling("remove_redundant_files")
    /\ fs' = remove_redundant_files(fs, unit.a, unit.keep)
    /\ unit' = [unit EXCEPT !.ret = "returned"]
    /\ UNCHANGED <<stack, pc, shutdown_flag, counter, log, call, hist, wait>>

CallGetAllFolders ==
    /\ Calling("get_all_folders")
    /\ unit' = [unit EXCEPT !.ret = "returned", !.paths = get_all_folders(fs, unit.a)]
    /\ UNCHANGED <<fs, stack, pc, shutdown_flag, counter, log, call, hist, wait>>

CallGetAllFiles ==
    /\ Calling("get_all_files")
    /\ unit' = [unit EXCEPT !.ret = "returned", !.paths = get_all_files(fs, unit.a)]
    /\ UNCHANGED <<fs, stack, pc, shutdown_flag, counter, log, call, hist, wait>>

NextUnit ==
    \/ CallGetAllFolders
    \/ CallGetAllFiles
    \/ CallCompareFiles
    \/ CallCopyFile
    \/ CallRemoveRedundantFolders
    \/ CallRemoveRedundantFiles

SpecUnit == InitUnit /\ [][NextUnit]_vars

(***************************************************************************)
(* Properties.                                                             *)
(***************************************************************************)
RelativePaths(f, root) == {relative_to(p, root) : p \in rglob(f, root)}

\* The replica tree equals the source tree: same relative paths, same kind
\* at each, same bytes in each file.
Mirror(f) ==
    /\ is_dir(f, source_folder_path)
    /\ is_dir(f, replica_folder_path)
    /\ RelativePaths(f, replica_folder_path) = RelativePaths(f, source_folder_path)
    /\ \A rel \in RelativePaths(f, source_folder_path) :
           f[replica_folder_path \o rel] = f[source_folder_path \o rel]

\* Replica entries whose relative path has no counterpart in the source.
Redundant(f) ==
    {q \in rglob(f, replica_folder_path) :
        ~exists(f, source_folder_path \o relative_to(q, replica_folder_path))}

\* The top-level sync_folder call has returned to handle_sync.
Returned(branch) == stack = <<>> /\ pc \in {"in_round", "in_final"} /\ call.branch = branch

Changes == {"copied_file", "removed_folder", "removed_file"}

\* C1: when a top-level sync_folder call that took the normal-case branch
\* (source a directory, replica an existing directory) returns, the replica
\* has exactly the source's relative paths, files and directories alike, and
\* every replica file holds the bytes of the source file at the same
\* relative path, whatever the replica held before.
C1_MirrorAfterNormalCall == Returned("normal") => Mirror(fs)

C1_Witness ==
    /\ Returned("normal")
    /\ call.n = 1
    /\ ~Mirror(call.fs0)
    /\ \E p \in rglob(fs, source_folder_path) : Len(p) > 2

\* C2: when the replica does not exist and the source is a directory, the
\* sync_folder call leaves a replica tree identical to the source tree:
\* every source entry at its relative path and nothing else.
C2_FreshCopyMirrors == Returned("fresh") => Mirror(fs)

\* C3: when a top-level sync_folder call that took the normal-case branch
\* returns, no replica entry at any depth is left whose relative path has
\* no counterpart in the source.
C3_RedundantRemoved == Returned("normal") => Redundant(fs) = {}

\* A redundant entry lay two levels down, inside a directory the source has
\* too, and a redundant directory had content.
C3_Witness ==
    /\ Returned("normal")
    /\ call.n = 1
    /\ \E q \in Redundant(call.fs0) : Len(q) = 3 /\ Parent(q) \notin Redundant(call.fs0)

\* C4: a sync_folder call that follows another one, with nothing changed in
\* between, copies no file and deletes nothing.
C4_SecondCallIdle == call.n >= 2 => log \cap Changes = {}

\* C5: after the shutdown flag is set during a run, at most one further
\* top-level sync_folder call is started, wherever the flag was set.
C5_AtMostOneFurtherCall == hist.signalled_calls <= 1

\* C5 as amended: at most one further call is started, except when the flag
\* is set between the loop condition and the call of that round, where the
\* round's call and the final call are both started.
C5_FurtherCallsBounded ==
    hist.signalled_calls <= (IF hist.signal_at = "call_round" THEN 2 ELSE 1)

C5_Witness == pc = "done" /\ hist.signal_at = "call_round" /\ hist.signalled_calls = 2

\* C6: once the loop condition or the test before the sleep has read the
\* flag as set, handle_sync does not sleep again and starts exactly one more
\* sync_folder call, the final one, before it returns.
C6_FinalPass ==
    /\ hist.observed => hist.observed_sleeps = 0 /\ hist.observed_calls <= 1
    /\ (pc = "done" /\ hist.entry_source) => hist.observed /\ hist.observed_calls = 1
    /\ pc = "in_final" => hist.observed_calls = 1

C6_Witness == pc = "done" /\ hist.observed /\ counter >= 1 /\ hist.signal_at = "in_round"

\* C7: once the flag is set in a run whose source root existed at entry,
\* handle_sync eventually ends, and at most one wait comes to its end after
\* the flag was set.
C7_ShutdownLiveness ==
    /\ (shutdown_flag /\ hist.entry_source) ~> (pc \in {"done", "raised"})
    /\ [](hist.signalled_waits <= 1)

C7_Witness == pc = "done" /\ hist.signalled_waits = 1

\* C8: entered with a source root that does not exist, handle_sync returns
\* having made no sync_folder call and no copy, an existing replica root,
\* directory or file, is gone, and neither root has been created.
C8_AbsentSourceTeardown ==
    (pc # "start" /\ ~hist.entry_source) =>
        /\ pc = "done"
        /\ call.n = 0
        /\ "copied_file" \notin log
        /\ ~exists(fs, replica_folder_path)
        /\ ~exists(fs, source_folder_path)

\* C9: no step creates, modifies or deletes the source root or anything
\* outside the replica root: every change of the filesystem is at the
\* replica root or below it.
OutsideReplica(f) == Restrict(f, {q \in DOMAIN f : ~IsPrefix(replica_folder_path, q)})

C9_SourceReadOnly == [][OutsideReplica(fs') = OutsideReplica(fs)]_vars

C9_Witness ==
    /\ stack = <<>>
    /\ call.n >= 1
    /\ fs # call.fs0
    /\ rglob(fs, source_folder_path) # {}

\* C10: when the source root exists at entry, handle_sync ends only by
\* returning after the flag was set: nothing that fails inside a round
\* leaves it as an exception.
C10_OnlyCancellationStops ==
    (hist.entry_source /\ pc \in {"done", "raised"}) => (pc = "done" /\ shutdown_flag)

\* The replica subtree at a relative path equals the source subtree there.
MirrorAt(f, rel) ==
    LET src == source_folder_path \o rel
        rep == replica_folder_path \o rel
    IN  /\ is_dir(f, src)
        /\ is_dir(f, rep)
        /\ {relative_to(q, rep) : q \in rglob(f, rep)} = {relative_to(q, src) : q \in rglob(f, src)}
        /\ \A q \in rglob(f, src) : f[rep \o relative_to(q, src)] = f[q]

\* sync_folder is about to test a replica path that is a regular file
\* where the source has a directory.
ConflictDetected(rel) ==
    /\ Running("sync", "check")
    /\ Top.src = source_folder_path \o rel
    /\ Top.rep = replica_folder_path \o rel
    /\ is_dir(fs, Top.src)
    /\ is_file(fs, Top.rep)

\* C11: whenever sync_folder is invoked on a replica path that is a regular
\* file where the source has a directory, the replica root included, later
\* rounds make that replica path a directory that mirrors the source
\* directory, with nobody else touching the filesystem, unless handle_sync
\* ends before.
C11_TypeConflictHeals ==
    \A rel \in {<<>>} \cup RelPaths(RunNames) :
        ConflictDetected(rel) ~> (MirrorAt(fs, rel) \/ pc \in {"done", "raised"})

\* C12: once the flag is set while handle_sync is inside time.sleep, none
\* of what is left of the interval is waited out.
C12_WaitCutShort == [][(pc = "sleeping" /\ shutdown_flag) => wait' >= wait]_vars

\* C14: no step of shutdown_handler, handle_sync or sync_folder takes the
\* flag from true back to false; a second run of the handler leaves it true.
C14_FlagTerminal == [][shutdown_flag => shutdown_flag']_vars

\* The flag was set before handle_sync took its first step and the whole
\* run, final sync_folder call included, went by with it set.
C14_Witness == shutdown_flag /\ pc = "done" /\ hist.signal_at = "start" /\ call.n = 1

\* The function called on its own has returned.
Called(fn) == unit.fn = fn /\ unit.ret # "none"

\* C13: compare_files(p1, p2), each path absent or a regular file, returns
\* true exactly when both are files holding the same bytes: false when a
\* path is absent (the same absent path twice included), when the lengths
\* differ or when a byte differs in whatever chunk, true for two empty
\* files; what else stat() reports of the files has no influence.
C13_CompareFiles ==
    (Called("compare_files") /\ ~is_dir(fs, unit.a) /\ ~is_dir(fs, unit.b)) =>
        unit.ret = IF /\ is_file(fs, unit.a)
                      /\ is_file(fs, unit.b)
                      /\ fs[unit.a].data = fs[unit.b].data
                   THEN "equal" ELSE "differ"

\* Two files of the same length that differ only in the second chunk.
C13_Witness ==
    /\ Called("compare_files")
    /\ unit.ret = "differ"
    /\ is_file(fs, unit.a) /\ is_file(fs, unit.b)
    /\ Len(fs[unit.a].data) = Len(fs[unit.b].data)
    /\ Len(fs[unit.a].data) > chunk_size
    /\ SubSeq(fs[unit.a].data, 1, chunk_size) = SubSeq(fs[unit.b].data, 1, chunk_size)

\* C15: remove_redundant_folders(dir, keep) removes the immediate child
\* directories of dir that are not in keep, with all they hold, and nothing
\* else: child files and kept directories stay as they were.
\* remove_redundant_files(dir, keep) removes the immediate child files
\* that are not in keep and nothing else: directories and deeper files stay.
C15_PrunerOneLevel ==
    LET f0 == unit.fs0
        gone == {c \in iterdir(f0, unit.a) :
                    /\ c \notin unit.keep
                    /\ IF unit.fn = "remove_redundant_folders" THEN is_dir(f0, c)
                       ELSE is_file(f0, c)}
    IN  (Called("remove_redundant_folders") \/ Called("remove_redundant_files")) =>
            /\ DOMAIN fs = {q \in DOMAIN f0 : \A c \in gone : ~IsPrefix(c, q)}
            /\ \A q \in DOMAIN fs : fs[q] = f0[q]

\* remove_redundant_folders removed a directory with an entry in it and
\* left a child file that keep does not name.
C15_Witness ==
    /\ Called("remove_redundant_folders")
    /\ \E q \in DOMAIN unit.fs0 \ DOMAIN fs : Len(q) = Len(unit.a) + 2
    /\ \E c \in iterdir(fs, unit.a) : is_file(fs, c) /\ c \notin unit.keep

\* C16: after copy_file(src, dst), src a regular file, dst another path
\* that is absent or a regular file and whose parent is a directory, dst is
\* a regular file, compare_files(src, dst) is true and src is as it was.
C16_CopyRoundTrip ==
    LET f0 == unit.fs0 IN
    (/\ Called("copy_file")
     /\ is_file(f0, unit.a)
     /\ unit.b # unit.a
     /\ is_dir(f0, Parent(unit.b))
     /\ ~is_dir(f0, unit.b)) =>
        /\ is_file(fs, unit.b)
        /\ compare_files(fs, unit.a, unit.b) = {"equal"}
        /\ fs[unit.a] = f0[unit.a]

\* dst held more bytes than src holds.
C16_Witness ==
    /\ Called("copy_file")
    /\ is_file(unit.fs0, unit.a) /\ is_file(unit.fs0, unit.b)
    /\ Len(unit.fs0[unit.b].data) > Len(unit.fs0[unit.a].data)
    /\ Len(unit.fs0[unit.a].data) > 0
    /\ unit.ret = "copied_file"

\* C17: copy_file returns normally whatever its arguments; when src does
\* not exist, or when the parent of dst does not exist, it logs an error
\* and the filesystem is as it was: dst is not created, a dst that existed
\* keeps its bytes, no directory is created.
C17_CopyFailureContained ==
    LET f0 == unit.fs0 IN
    Called("copy_file") =>
        /\ unit.ret \in {"error", "copied_file"}
        /\ (~exists(f0, unit.a) \/ ~exists(f0, Parent(unit.b))) =>
               (unit.ret = "error" /\ fs = f0)

\* src is absent and dst is a file that holds bytes.
C17_Witness ==
    /\ Called("copy_file")
    /\ ~exists(unit.fs0, unit.a)
    /\ is_file(fs, unit.b)
    /\ fs[unit.b].data # <<>>
    /\ unit.ret = "error"

\* A path at or below an entry whose deletion failed in the current call.
BelowFailed(q) == \E path \in call.failed : IsPrefix(path, q)

\* Apart from the entries whose deletion failed, the replica mirrors the source.
MirrorButFailed(f) ==
    /\ \A q \in rglob(f, source_folder_path) :
           LET r == replica_folder_path \o relative_to(q, source_folder_path)
           IN  BelowFailed(r) \/ (r \in DOMAIN f /\ f[r] = f[q])
    /\ \A r \in Redundant(f) : BelowFailed(r)

\* C18: a sync_folder call in which the deletion of a redundant replica
\* entry failed is not left by an exception, and when it returns every
\* other redundant entry is gone and every source entry is mirrored.
C18_BestEffort ==
    call.failed # {} =>
        /\ pc # "raised"
        /\ Returned("normal") => MirrorButFailed(fs)

\* A source folder that is still there and neither holds nor lies in a
\* folder that was removed during the current call.
Untouched(folder) ==
    \A gone \in call.vanished : ~IsPrefix(gone, folder) /\ ~IsPrefix(folder, gone)

\* C19: a sync_folder call during which somebody removed a source folder
\* is not left by an exception, and when it returns every source folder
\* apart from the removed one and those around it is mirrored.
C19_VanishedSourceNotFatal ==
    call.vanished # {} =>
        /\ pc # "raised"
        /\ Returned("normal") =>
               \A folder \in get_all_folders(fs, source_folder_path) :
                   Untouched(folder) => MirrorAt(fs, relative_to(folder, source_folder_path))

\* C20: sync_folder called with a source that is not a directory (absent
\* or a file) returns having changed nothing, whatever the replica is or
\* holds, and takes that branch before it looks at the replica; called
\* with a source directory and a replica that is a regular file it returns
\* with that file and everything else as it was.
C20_AbortBranchesChangeNothing ==
    LET f0 == call.fs0
        source_is_not_dir == ~is_dir(f0, source_folder_path)
        replica_is_file == is_dir(f0, source_folder_path) /\ is_file(f0, replica_folder_path)
    IN  (pc = "direct" /\ (source_is_not_dir \/ replica_is_file)) =>
            /\ fs = f0
            /\ call.branch \in {"none", IF source_is_not_dir THEN "no_source" ELSE "conflict"}
            /\ call.branch # "none" => stack = <<>>

\* The source is absent, the replica holds entries, the call has returned.
C20_Witness ==
    /\ pc = "direct"
    /\ stack = <<>>
    /\ call.branch = "no_source"
    /\ ~exists(fs, source_folder_path)
    /\ rglob(fs, replica_folder_path) # {}

\* The top-level sync_folder call has ended: it returned or an exception
\* left it.
Ended == stack = <<>> /\ pc \in {"in_round", "in_final", "raised"} /\ call.n >= 1

\* Relative paths at which the source has a file and the replica a
\* directory, or the other way round.
TypeFlips(f) ==
    {rel \in RelativePaths(f, source_folder_path) \cap RelativePaths(f, replica_folder_path) :
        f[source_folder_path \o rel].kind # f[replica_folder_path \o rel].kind}

\* C21: a sync_folder call of the normal-case branch, once over, has given
\* every replica path that was a directory where the source has a file, or
\* a file where the source has a directory, the source's kind and, for a
\* file, the source's bytes.
C21_TypeFlipResolved ==
    (Ended /\ call.branch = "normal") =>
        \A rel \in TypeFlips(call.fs0) :
            /\ replica_folder_path \o rel \in DOMAIN fs
            /\ fs[replica_folder_path \o rel] = fs[source_folder_path \o rel]

\* The replica folder mirrors the source folder at its own level: it
\* exists, and each of its entries has a source entry of the same kind.
Pruned(f, source_folder, replica_folder) ==
    /\ is_dir(f, replica_folder)
    /\ \A path \in iterdir(f, replica_folder) :
           LET source_path == source_folder \o relative_to(path, replica_folder)
           IN  source_path \in DOMAIN f /\ f[source_path].kind = f[path].kind

\* C22: whenever sync_folder is in its loop over files with a file that
\* compare_files finds different, so that copy_file is called for it, the
\* replica folder that is to hold the copy exists and holds neither a
\* redundant entry nor an entry of the wrong kind.
C22_CopyIntoPrunedFolder ==
    Running("sync", "loop") =>
        \A file \in Top.files :
            LET replica_file == build_path(Top.rep, relative_to(file, Top.src))
            IN  "differ" \in compare_files(fs, file, replica_file) =>
                    Pruned(fs, Parent(file), Parent(replica_file))

\* The replica root was absent or a directory when handle_sync was
\* entered, and the source root a directory.
MirrorExpected ==
    /\ hist.entry_source
    /\ is_dir(fs, source_folder_path)
    /\ hist.entry_replica \in {"absent", "dir"}

\* C25: once the second of two consecutive sync_folder calls is over, and
\* after every later call, the replica mirrors the source, provided the
\* replica root was absent or a directory to begin with.
C25_MirrorAfterTwoCalls == (MirrorExpected /\ Ended /\ call.n >= 2) => Mirror(fs)

\* C26: a sync_folder call of the normal-case branch on a replica with no
\* entry of another kind than the source's logs no error.
C26_NoSpuriousErrors ==
    (Returned("normal") /\ TypeFlips(call.fs0) = {}) => "error" \notin log

\* C28: when handle_sync returns after the flag was set, the replica
\* mirrors the source, provided the replica root was absent or a directory
\* at entry.
C28_MirrorAtShutdown == (MirrorExpected /\ pc = "done" /\ shutdown_flag) => Mirror(fs)

\* C23: counter starts at 0 and is one more after each sync_folder call of
\* the loop; the final call leaves it alone.  So while a call runs, and
\* when handle_sync has returned, the number of sync_folder calls made is
\* counter + 1, which is at least one; between calls it is counter.
C23_RoundCounter ==
    hist.entry_source =>
        /\ pc \in {"loop", "call_round", "presleep", "sleeping", "call_final"} =>
               call.n = counter
        /\ pc \in {"in_round", "in_final", "done"} => call.n = counter + 1

\* handle_sync has returned after MaxRounds rounds and the final call.
C23_Witness == pc = "done" /\ counter = MaxRounds /\ call.n = MaxRounds + 1

\* C27: when the flag is already set as handle_sync is entered and the
\* source root exists, handle_sync starts no round and never sleeps,
\* counter stays 0, and the one sync_folder call made is the final one.
C27_FlagSetAtEntry ==
    (hist.signal_at = "start" /\ hist.entry_source) =>
        /\ counter = 0
        /\ pc \notin {"call_round", "in_round", "presleep", "sleeping"}
        /\ call.n = IF pc \in {"in_final", "done", "raised"} THEN 1 ELSE 0

\* The flag was set at entry; the final call copied a file and
\* handle_sync returned.
C27_Witness ==
    /\ pc = "done"
    /\ hist.signal_at = "start"
    /\ hist.entry_source
    /\ counter = 0
    /\ call.branch = "normal"
    /\ "copied_file" \in log

\* What a descent from a folder through directories meets, n levels deep.
RECURSIVE Below(_, _, _)
Below(f, folder, n) ==
    IF n = 0 THEN {}
    ELSE iterdir(f, folder)
         \cup UNION {Below(f, child, n - 1) : child \in {c \in iterdir(f, folder) : is_dir(f, c)}}

\* C24: get_all_folders(root) returns the directories met by descending
\* from root, empty ones included and root excluded, and get_all_files(root)
\* the files met; no path is in both and every path lies below root.
C24_TreeEnumerator ==
    LET reached == Below(fs, unit.a, Cardinality(DOMAIN fs))
    IN  /\ Called("get_all_folders") => unit.paths = {q \in reached : fs[q].kind = "dir"}
        /\ Called("get_all_files") => unit.paths = {q \in reached : fs[q].kind = "file"}
        /\ (Called("get_all_folders") \/ Called("get_all_files")) =>
               /\ \A q \in unit.paths : q # unit.a /\ IsPrefix(unit.a, q)
               /\ get_all_folders(fs, unit.a) \cap get_all_files(fs, unit.a) = {}

\* get_all_folders of a folder that has a sibling returned an empty
\* directory.
C24_Witness ==
    /\ Called("get_all_folders")
    /\ iterdir(fs, Parent(unit.a)) # {unit.a}
    /\ \E q \in unit.paths : iterdir(fs, q) = {}

\* C29: when the source root was there as handle_sync was entered and has
\* been removed since, no exception leaves handle_sync and it returns only
\* once the flag is set; a sync_folder call that started after the removal
\* takes the source-is-not-a-directory branch and returns with the
\* filesystem, the replica in it, as it was.
C29_TeardownOnlyAtEntry ==
    (hist.entry_source /\ ~exists(fs, source_folder_path)) =>
        /\ pc # "raised"
        /\ pc = "done" => shutdown_flag
        /\ (Ended /\ ~exists(call.fs0, source_folder_path)) =>
               (call.branch = "no_source" /\ fs = call.fs0)
====
